---- MODULE Spec2Model ----
(***************************************************************************)
(* Model of xbd+randargument_editing.py: run_epoch (one pass over a data   *)
(* loader) and train_and_eval (construction, checkpoint resume, eval-only  *)
(* path, the epoch loop with best-checkpoint saving, near-the-end test     *)
(* passes, the reporter callback and the epoch scheduler step).            *)
(*                                                                         *)
(* Three specifications share the variables:                               *)
(*   Spec          one or more processes running train_and_eval on the     *)
(*                 same save_path (a killed process may be restarted);     *)
(*   SpecLoad      construction and checkpoint loading only, over a wider  *)
(*                 range of model state dicts;                             *)
(*   SpecRunEpoch  one call of run_epoch, batch by batch.                  *)
(***************************************************************************)
EXTENDS Integers, Sequences, FiniteSets, TLC

----------------------------------------------------------------------------
(* Bounds of the model *)

\* C.get()['epoch'] ranges over 1..MaxEpochBound
MaxEpochBound == 7
\* the epoch stored in a checkpoint found at start ranges over 0..MaxCkptEpoch
MaxCkptEpoch == 10
\* how many times a killed process is started again
MaxRestarts == 1
\* the per-epoch validation values are recorded as a sequence for runs
\* configured with at most HistEpochs epochs
HistEpochs == 3
\* len(trainloader): optimizer steps of one training pass
TrainLoaderLen == 2
\* run_epoch is given between 0 and MaxBatches batches
MaxBatches == 3
\* each batch holds between 1 and MaxBatchSize samples
MaxBatchSize == 2

(* Program constants *)

\* line 207: C.get()['epoch'] - epoch <= 5
TestWindow == 5

\* "key not in dict" / None for integer-valued entries
Absent == -1

\* values of the target metric a validation pass may produce (percent)
Values == {40, 50, 55}

OptimizerTypes == {"sgd", "adam"}
SchedulerTypes == {"cosine", "resnet", "step"}

----------------------------------------------------------------------------
(* State-dict keys.  A key is a sequence of atoms; "." is an atom of its   *)
(* own, so that  'module.' in k  is a substring search as in the code.     *)

ModulePrefix == <<"module", ".">>
ConvW == <<"conv", ".", "weight">>
FcW == <<"fc", ".", "weight">>
SeW == <<"se_", "module", ".", "fc", ".", "weight">>

\* get_model(C.get()['model'], ...): the parameter names of the bare network
ParamNames(m) ==
    IF m = "senet" THEN <<ConvW, SeW, FcW>> ELSE <<ConvW, FcW>>

\* 'module.' in k
HasModuleDot(k) ==
    \E i \in 1..(Len(k) - 1) : k[i] = "module" /\ k[i + 1] = "."

\* k if 'module.' in k else 'module.'+k
NormalizeKey(k) == IF HasModuleDot(k) THEN k ELSE ModulePrefix \o k

\* d[k] = v on an ordered dict held as a sequence of [k, v] entries
DictSet(d, k, v) ==
    IF \E i \in 1..Len(d) : d[i].k = k
    THEN [i \in 1..Len(d) |-> IF d[i].k = k THEN [k |-> k, v |-> v] ELSE d[i]]
    ELSE Append(d, [k |-> k, v |-> v])

RECURSIVE NormalizeFrom(_, _, _)
NormalizeFrom(sd, i, acc) ==
    IF i > Len(sd) THEN acc
    ELSE NormalizeFrom(sd, i + 1, DictSet(acc, NormalizeKey(sd[i].k), sd[i].v))

\* line 148: {k if 'module.' in k else 'module.'+k: v for k, v in data[key].items()}
NormalizeWrapped(sd) == NormalizeFrom(sd, 1, <<>>)

\* line 152: {k if 'module.' in k else 'module.'+k: v for k, v in data.items()}
NormalizeBare(sd) == NormalizeFrom(sd, 1, <<>>)

DictKeys(d) == {d[i].k : i \in 1..Len(d)}
DictGet(d, k) == d[CHOOSE i \in 1..Len(d) : d[i].k = k].v

\* get_model(...): a freshly initialised network wrapped in DataParallel, so
\* every key of model.state_dict() starts with 'module.'
InitModel(m) ==
    [i \in 1..Len(ParamNames(m)) |->
        [k |-> ModulePrefix \o ParamNames(m)[i], v |-> 0]]

\* model.load_state_dict(sd) is strict: missing or unexpected keys raise
LoadStateDictOk(mdl, sd) == DictKeys(sd) = DictKeys(mdl)
LoadStateDict(mdl, sd) ==
    [i \in 1..Len(mdl) |-> [k |-> mdl[i].k, v |-> DictGet(sd, mdl[i].k)]]

\* optimizer.step(), once per batch of a training pass: every parameter moves
TrainedModel(mdl, steps) ==
    [i \in 1..Len(mdl) |-> [k |-> mdl[i].k, v |-> mdl[i].v + steps]]

----------------------------------------------------------------------------
(* Checkpoint files *)

NoFile ==
    [form |-> "nofile", sd |-> <<>>, epoch |-> Absent, metric |-> Absent,
     optimizer |-> Absent, scheduler |-> Absent]

\* a state dict of network m as some earlier program stored it: with the
\* DataParallel prefix on every key or on none
StoredStateDict(m, prefixed) ==
    [i \in 1..Len(ParamNames(m)) |->
        [k |-> IF prefixed THEN ModulePrefix \o ParamNames(m)[i]
                           ELSE ParamNames(m)[i],
         v |-> i]]

NonNeg(n) == IF n < 0 THEN 0 ELSE n

BareFiles(m) ==
    {[form |-> "bare", sd |-> StoredStateDict(m, p), epoch |-> Absent,
      metric |-> Absent, optimizer |-> Absent, scheduler |-> Absent] :
        p \in BOOLEAN}

\* the wrapped shapes: the key holding the state dict, and whether its keys
\* carry the prefix
AllShapes == {"model", "state_dict"} \X BOOLEAN
\* this program's own checkpoints, and a checkpoint of a single-device program
UsualShapes == {<<"model", TRUE>>, <<"state_dict", FALSE>>}

WrappedFiles(m, shapes) ==
    {[form |-> sh[1], sd |-> StoredStateDict(m, sh[2]), epoch |-> e, metric |-> v,
      optimizer |-> IF full THEN TrainLoaderLen * NonNeg(e) ELSE Absent,
      scheduler |-> IF full THEN NonNeg(e - 1) ELSE Absent] :
        sh \in shapes,
        e \in {Absent} \cup 0..MaxCkptEpoch, v \in {Absent} \cup Values,
        full \in BOOLEAN}

----------------------------------------------------------------------------
(* Metrics returned by a pass, tagged with the pass that produced them *)

NoMetrics == [pass |-> "none", epoch |-> 0, val |-> 0]
Metrics(p, e, v) == [pass |-> p, epoch |-> e, val |-> v]
\* which pass of which epoch a metrics object came from
Tag(m) == [pass |-> m.pass, epoch |-> m.epoch]
Event(o, e, v) == [op |-> o, epoch |-> e, val |-> v]
NoKill == [epoch |-> 0, best_epoch |-> 0, start |-> 0]

VARIABLES
    cfg,            \* C.get() and the arguments of train_and_eval
    file,           \* what is stored at save_path
    pc,             \* position of the process in train_and_eval
    model,          \* model.state_dict()
    optimizer,      \* optimizer state: steps taken (Absent before construction)
    scheduler,      \* scheduler.last_epoch (Absent before construction)
    result,         \* result['best_valid'] (Absent: key not in result)
    epoch_start,
    epoch,          \* the loop variable (0 before the loop)
    train_metrics, valid_metrics, test_metrics,
    retval,         \* what train_and_eval returned (NoMetrics before it returns)
    trace,          \* passes, loads, saves, reporter calls, scheduler steps of this process
    reports,        \* the reporter calls of this process: the epoch given and
                    \* the provenance of the three metrics objects given
    seen,           \* validation values of the epochs this process has decided on
    hist,           \* the same as a sequence, for runs of at most HistEpochs epochs
    restarts,       \* how many times the process was started again
    killed,         \* where the previous process was killed: the epoch in
                    \* progress, the last epoch it saved at, the epoch it had
                    \* started at (kept until the new process has loaded the
                    \* checkpoint and gone on)
    re_pc,          \* position in run_epoch
    re_in,          \* arguments of run_epoch: loader, optimizer, scheduler, epoch
    re_steps, re_cnt, re_metrics,
    re_opt_steps,   \* optimizer.step() calls made
    re_sched        \* arguments of the scheduler.step() calls made

mainvars ==
    <<cfg, file, pc, model, optimizer, scheduler, result, epoch_start, epoch,
      train_metrics, valid_metrics, test_metrics, retval, trace, reports,
      seen, hist, restarts, killed>>
revars == <<re_pc, re_in, re_steps, re_cnt, re_metrics, re_opt_steps, re_sched>>
vars == <<mainvars, revars>>

----------------------------------------------------------------------------
(* train_and_eval: the conditions of its branches *)

\* (mutant) adam is accepted too
OptimizerSupportedWithAdam(t) == t \in {"sgd", "adam"}

\* line 102: C.get()['optimizer']['type'] == 'sgd'
OptimizerSupported(t) == t = "sgd"

\* lines 118-124 (the type is configured; the default 'cosine' of an absent
\* key is one of the supported types)
SchedulerSupported(t) == t \in {"cosine", "resnet"}

\* line 143: save_path and os.path.exists(save_path)
CheckpointFound(c, f) == c.save_path /\ f.form # "nofile"

\* line 146: 'model' in data or 'state_dict' in data
IsWrapped(data) == data.form \in {"model", "state_dict"}

\* lines 146-152: the state dict handed to model.load_state_dict
LoadedStateDict(data) ==
    IF IsWrapped(data) THEN NormalizeWrapped(data.sd) ELSE NormalizeBare(data.sd)

\* lines 149-150: result['best_valid'] after loading
RestoredBest(data) ==
    IF IsWrapped(data) /\ data.metric # Absent THEN data.metric ELSE Absent

\* (mutant) the loop resumes at the stored epoch itself
EpochStartAtStored(data) == IF data.epoch # Absent THEN data.epoch ELSE 1

\* lines 142, 157-158
EpochStartOf(data) == IF data.epoch # Absent THEN data.epoch + 1 ELSE 1

\* (mutant) a tie counts as an improvement
IsNewBestOrTie(res, v) == res = Absent \/ res <= v

\* line 195: 'best_valid' not in result or result['best_valid'] < valid_metrics[metric]
IsNewBest(res, v) == res = Absent \/ res < v

\* (mutant) the boundary epoch is left out
TestDueStrict(max_epoch, e) == max_epoch - e < TestWindow

\* line 207: C.get()['epoch'] - epoch <= 5
TestDue(max_epoch, e) == max_epoch - e <= TestWindow

\* (mutant) the epoch stored is the one before the epoch being saved
CheckpointOfPreviousEpoch(e, v, mdl, opt, sch) ==
    [form |-> "model", sd |-> mdl, epoch |-> e - 1, metric |-> v,
     optimizer |-> opt, scheduler |-> sch]

\* lines 198-204: the dict handed to torch.save
Checkpoint(e, v, mdl, opt, sch) ==
    [form |-> "model", sd |-> mdl, epoch |-> e, metric |-> v,
     optimizer |-> opt, scheduler |-> sch]

\* (mutant) the range runs one epoch past max_epoch
NextEpochPastEnd(start, cur, max_epoch) ==
    LET n == IF cur = 0 THEN start ELSE cur + 1
    IN IF n <= max_epoch + 1 THEN n ELSE 0

\* line 179: the next value of range(epoch_start, max_epoch + 1), 0 when exhausted
NextEpoch(start, cur, max_epoch) ==
    LET n == IF cur = 0 THEN start ELSE cur + 1
    IN IF n <= max_epoch THEN n ELSE 0

InEpoch == {"train", "valid", "decide", "test_check", "report", "sched_step"}
Running ==
    {"start", "opt_built", "sched_built", "loaded", "eval_test", "eval_done",
     "next"} \cup InEpoch

LastSaveEpoch(tr) ==
    LET saves == {i \in 1..Len(tr) : tr[i].op = "save"}
    IN IF saves = {} THEN 0
       ELSE tr[CHOOSE i \in saves : \A j \in saves : j <= i].epoch

----------------------------------------------------------------------------
(* Initial states *)

Configs(models) ==
    [max_epoch : 1..MaxEpochBound, only_eval : BOOLEAN, save_path : BOOLEAN,
     model : models, opt_type : OptimizerTypes, sched_type : SchedulerTypes]

\* the local variables of a process entering train_and_eval, after line 95
ProcessStart ==
    /\ pc = "start"
    /\ model = InitModel(cfg.model)
    /\ optimizer = Absent
    /\ scheduler = Absent
    /\ result = Absent
    /\ epoch_start = 0
    /\ epoch = 0
    /\ train_metrics = NoMetrics
    /\ valid_metrics = NoMetrics
    /\ test_metrics = NoMetrics
    /\ retval = NoMetrics
    /\ trace = <<>>
    /\ reports = <<>>
    /\ seen = {}
    /\ hist = <<>>

RunEpochIdle ==
    /\ re_pc = "idle"
    /\ re_in = [loader |-> <<>>, optimizer |-> FALSE, scheduler |-> FALSE,
                epoch |-> 0, lr |-> 0]
    /\ re_steps = 0
    /\ re_cnt = 0
    /\ re_metrics = <<>>
    /\ re_opt_steps = 0
    /\ re_sched = <<>>

Init ==
    /\ cfg \in Configs({"wresnet"})
    /\ file \in IF cfg.save_path
                THEN {NoFile} \cup BareFiles(cfg.model)
                     \cup WrappedFiles(cfg.model, UsualShapes)
                ELSE {NoFile}
    /\ ProcessStart
    /\ restarts = 0
    /\ killed = NoKill
    /\ RunEpochIdle

----------------------------------------------------------------------------
(* train_and_eval, step by step *)

env == <<cfg, restarts>>
locals == <<train_metrics, valid_metrics, test_metrics>>
ghosts == <<seen, hist>>

\* lines 102-111
BuildOptimizer ==
    /\ pc = "start"
    /\ IF OptimizerSupported(cfg.opt_type)
       THEN pc' = "opt_built" /\ optimizer' = 0
       ELSE pc' = "config_error" /\ UNCHANGED optimizer
    /\ UNCHANGED <<env, killed, file, model, scheduler, result, epoch_start, epoch,
                   locals, retval, trace, reports, ghosts, revars>>

\* lines 118-124
BuildScheduler ==
    /\ pc = "opt_built"
    /\ IF SchedulerSupported(cfg.sched_type)
       THEN pc' = "sched_built" /\ scheduler' = 0
       ELSE pc' = "config_error" /\ UNCHANGED scheduler
    /\ UNCHANGED <<env, killed, file, model, optimizer, result, epoch_start, epoch,
                   locals, retval, trace, reports, ghosts, revars>>

\* lines 141-158
LoadCheckpoint ==
    /\ pc = "sched_built"
    /\ IF ~CheckpointFound(cfg, file)
       THEN /\ pc' = "loaded"
            /\ result' = Absent
            /\ epoch_start' = 1
            /\ UNCHANGED <<model, optimizer, scheduler, trace>>
       ELSE IF ~LoadStateDictOk(model, LoadedStateDict(file))
       THEN /\ pc' = "load_error"
            /\ result' = Absent
            /\ epoch_start' = 1
            /\ UNCHANGED <<model, optimizer, scheduler, trace>>
       ELSE /\ pc' = "loaded"
            /\ model' = LoadStateDict(model, LoadedStateDict(file))
            /\ result' = RestoredBest(file)
            /\ optimizer' = IF file.optimizer # Absent THEN file.optimizer
                                                       ELSE optimizer
            /\ scheduler' = IF file.scheduler # Absent THEN file.scheduler
                                                       ELSE scheduler
            /\ epoch_start' = EpochStartOf(file)
            /\ trace' = Append(trace, Event("load", file.epoch, RestoredBest(file)))
    /\ UNCHANGED <<env, killed, file, epoch, locals, retval, reports, ghosts, revars>>

\* line 166: the validation pass of the eval-only path
EvalOnlyValid ==
    /\ pc = "loaded" /\ cfg.only_eval
    /\ \E v \in Values : valid_metrics' = Metrics("valid", epoch_start, v)
    /\ trace' = Append(trace, Event("valid", epoch_start, 0))
    /\ pc' = "eval_test"
    /\ killed' = NoKill
    /\ UNCHANGED <<env, file, model, optimizer, scheduler, result, epoch_start,
                   epoch, train_metrics, test_metrics, retval, reports, ghosts,
                   revars>>

\* line 167: the test pass of the eval-only path
EvalOnlyTest ==
    /\ pc = "eval_test"
    /\ test_metrics' = Metrics("test", epoch_start, 0)
    /\ trace' = Append(trace, Event("test", epoch_start, 0))
    /\ pc' = "eval_done"
    /\ UNCHANGED <<env, killed, file, model, optimizer, scheduler, result, epoch_start,
                   epoch, train_metrics, valid_metrics, retval, reports, ghosts,
                   revars>>

\* (mutant) the metrics of the test pass are returned
EvalOnlyReturnTest ==
    /\ pc = "eval_done"
    /\ retval' = test_metrics
    /\ pc' = "returned"
    /\ UNCHANGED <<env, killed, file, model, optimizer, scheduler, result, epoch_start,
                   epoch, locals, trace, reports, ghosts, revars>>

\* lines 168-175
EvalOnlyReturn ==
    /\ pc = "eval_done"
    /\ retval' = valid_metrics
    /\ pc' = "returned"
    /\ UNCHANGED <<env, killed, file, model, optimizer, scheduler, result, epoch_start,
                   epoch, locals, trace, reports, ghosts, revars>>

\* line 179 (and line 218 when the range is exhausted)
LoopHead ==
    /\ \/ pc = "loaded" /\ ~cfg.only_eval
       \/ pc = "next"
    /\ LET n == NextEpoch(epoch_start, epoch, cfg.max_epoch)
       IN IF n # 0
          THEN /\ epoch' = n
               /\ pc' = "train"
               /\ UNCHANGED retval
          ELSE /\ retval' = Metrics("result", 0, result)
               /\ pc' = "returned"
               /\ UNCHANGED epoch
    /\ killed' = NoKill
    /\ UNCHANGED <<env, file, model, optimizer, scheduler, result, epoch_start,
                   locals, trace, reports, ghosts, revars>>

\* lines 180-182: run_epoch over trainloader with the optimizer
TrainPass ==
    /\ pc = "train"
    /\ model' = TrainedModel(model, TrainLoaderLen)
    /\ optimizer' = optimizer + TrainLoaderLen
    /\ train_metrics' = Metrics("train", epoch, 0)
    /\ trace' = Append(trace, Event("train", epoch, 0))
    /\ pc' = "valid"
    /\ UNCHANGED <<env, killed, file, scheduler, result, epoch_start, epoch,
                   valid_metrics, test_metrics, retval, reports, ghosts, revars>>

\* (mutant) the validation pass is handed the optimizer
ValidPassWithOptimizer ==
    /\ pc = "valid"
    /\ \E v \in Values : valid_metrics' = Metrics("valid", epoch, v)
    /\ model' = TrainedModel(model, TrainLoaderLen)
    /\ optimizer' = optimizer + TrainLoaderLen
    /\ trace' = Append(trace, Event("valid", epoch, 0))
    /\ pc' = "decide"
    /\ UNCHANGED <<env, killed, file, scheduler, result, epoch_start,
                   epoch, train_metrics, test_metrics, retval, reports, ghosts,
                   revars>>

\* lines 183-185: run_epoch over validloader without optimizer
ValidPass ==
    /\ pc = "valid"
    /\ \E v \in Values : valid_metrics' = Metrics("valid", epoch, v)
    /\ trace' = Append(trace, Event("valid", epoch, 0))
    /\ pc' = "decide"
    /\ UNCHANGED <<env, killed, file, model, optimizer, scheduler, result, epoch_start,
                   epoch, train_metrics, test_metrics, retval, reports, ghosts,
                   revars>>

\* (mutant) the best value is recorded inside the "if save_path" block
BestDecisionTrackedOnSave ==
    /\ pc = "decide"
    /\ IF IsNewBest(result, valid_metrics.val) /\ cfg.save_path
       THEN /\ file' = Checkpoint(epoch, valid_metrics.val, model,
                                  optimizer, scheduler)
            /\ trace' = Append(trace, Event("save", epoch, valid_metrics.val))
            /\ result' = valid_metrics.val
       ELSE UNCHANGED <<file, trace, result>>
    /\ seen' = seen \cup {valid_metrics.val}
    /\ hist' = IF cfg.max_epoch <= HistEpochs THEN Append(hist, valid_metrics.val)
                                              ELSE hist
    /\ pc' = "test_check"
    /\ UNCHANGED <<env, killed, model, optimizer, scheduler, epoch_start, epoch, locals,
                   retval, reports, revars>>

\* (mutant) the checkpoint is written at every epoch, best or not
BestDecisionAlwaysSaves ==
    /\ pc = "decide"
    /\ IF cfg.save_path
       THEN /\ file' = Checkpoint(epoch, valid_metrics.val, model,
                                  optimizer, scheduler)
            /\ trace' = Append(trace, Event("save", epoch, valid_metrics.val))
       ELSE UNCHANGED <<file, trace>>
    /\ result' = IF IsNewBest(result, valid_metrics.val) THEN valid_metrics.val
                                                          ELSE result
    /\ seen' = seen \cup {valid_metrics.val}
    /\ hist' = IF cfg.max_epoch <= HistEpochs THEN Append(hist, valid_metrics.val)
                                              ELSE hist
    /\ pc' = "test_check"
    /\ UNCHANGED <<env, killed, model, optimizer, scheduler, epoch_start, epoch, locals,
                   retval, reports, revars>>

\* lines 194-205
BestDecision ==
    /\ pc = "decide"
    /\ IF IsNewBest(result, valid_metrics.val)
       THEN /\ IF cfg.save_path
               THEN /\ file' = Checkpoint(epoch, valid_metrics.val, model,
                                          optimizer, scheduler)
                    /\ trace' = Append(trace, Event("save", epoch, valid_metrics.val))
               ELSE UNCHANGED <<file, trace>>
            /\ result' = valid_metrics.val
       ELSE UNCHANGED <<file, trace, result>>
    /\ seen' = seen \cup {valid_metrics.val}
    /\ hist' = IF cfg.max_epoch <= HistEpochs THEN Append(hist, valid_metrics.val)
                                              ELSE hist
    /\ pc' = "test_check"
    /\ UNCHANGED <<env, killed, model, optimizer, scheduler, epoch_start, epoch, locals,
                   retval, reports, revars>>

\* lines 207-213
TestPass ==
    /\ pc = "test_check"
    /\ IF TestDue(cfg.max_epoch, epoch)
       THEN /\ test_metrics' = Metrics("test", epoch, 0)
            /\ trace' = Append(trace, Event("test", epoch, 0))
       ELSE /\ test_metrics' = NoMetrics
            /\ UNCHANGED trace
    /\ pc' = "report"
    /\ UNCHANGED <<env, killed, file, model, optimizer, scheduler, result, epoch_start,
                   epoch, train_metrics, valid_metrics, retval, reports, ghosts,
                   revars>>

\* (mutant) the train metrics are passed as valid=
ReportTrainAsValid ==
    /\ pc = "report"
    /\ reports' = Append(reports, [epoch |-> epoch, train |-> Tag(train_metrics),
                                   valid |-> Tag(train_metrics),
                                   test |-> Tag(test_metrics)])
    /\ trace' = Append(trace, Event("report", epoch, 0))
    /\ pc' = "sched_step"
    /\ UNCHANGED <<env, killed, file, model, optimizer, scheduler, result, epoch_start,
                   epoch, locals, retval, ghosts, revars>>

\* (mutant) the scheduler step is left out of the loop body
ReportWithoutSchedulerStep ==
    /\ pc = "report"
    /\ reports' = Append(reports, [epoch |-> epoch, train |-> Tag(train_metrics),
                                   valid |-> Tag(valid_metrics),
                                   test |-> Tag(test_metrics)])
    /\ trace' = Append(trace, Event("report", epoch, 0))
    /\ pc' = "next"
    /\ UNCHANGED <<env, killed, file, model, optimizer, scheduler, result, epoch_start,
                   epoch, locals, retval, ghosts, revars>>

\* line 215
Report ==
    /\ pc = "report"
    /\ reports' = Append(reports, [epoch |-> epoch, train |-> Tag(train_metrics),
                                   valid |-> Tag(valid_metrics),
                                   test |-> Tag(test_metrics)])
    /\ trace' = Append(trace, Event("report", epoch, 0))
    /\ pc' = "sched_step"
    /\ UNCHANGED <<env, killed, file, model, optimizer, scheduler, result, epoch_start,
                   epoch, locals, retval, ghosts, revars>>

\* line 216
SchedulerStep ==
    /\ pc = "sched_step"
    /\ scheduler' = epoch
    /\ trace' = Append(trace, Event("sched", epoch, 0))
    /\ pc' = "next"
    /\ UNCHANGED <<env, killed, file, model, optimizer, result, epoch_start, epoch,
                   locals, retval, reports, ghosts, revars>>

----------------------------------------------------------------------------
(* The environment: the process is killed, and started again *)

\* nothing of the process survives but the file at save_path
Kill ==
    /\ pc \in Running
    /\ killed' = [epoch |-> IF pc \in InEpoch THEN epoch ELSE 0,
                  best_epoch |-> LastSaveEpoch(trace),
                  start |-> epoch_start]
    /\ pc' = "killed"
    /\ model' = InitModel(cfg.model)
    /\ optimizer' = Absent
    /\ scheduler' = Absent
    /\ result' = Absent
    /\ epoch_start' = 0
    /\ epoch' = 0
    /\ train_metrics' = NoMetrics
    /\ valid_metrics' = NoMetrics
    /\ test_metrics' = NoMetrics
    /\ retval' = NoMetrics
    /\ trace' = <<>>
    /\ reports' = <<>>
    /\ seen' = {}
    /\ hist' = <<>>
    /\ UNCHANGED <<cfg, file, restarts, revars>>

\* train_and_eval is called again with the same arguments
Restart ==
    /\ pc = "killed"
    /\ restarts < MaxRestarts
    /\ restarts' = restarts + 1
    /\ pc' = "start"
    /\ UNCHANGED <<cfg, file, killed, model, optimizer, scheduler, result,
                   epoch_start, epoch, locals, retval, trace, reports, ghosts,
                   revars>>

Next ==
    \/ BuildOptimizer \/ BuildScheduler \/ LoadCheckpoint
    \/ EvalOnlyValid \/ EvalOnlyTest \/ EvalOnlyReturn
    \/ LoopHead \/ TrainPass \/ ValidPass \/ BestDecision \/ TestPass
    \/ Report \/ SchedulerStep
    \/ Kill \/ Restart

Spec == Init /\ [][Next]_vars

----------------------------------------------------------------------------
(* One call of train_and_eval that nothing interrupts: the interpreter goes *)
(* on to the next statement as long as there is one                         *)

NextCall ==
    \/ BuildOptimizer \/ BuildScheduler \/ LoadCheckpoint
    \/ EvalOnlyValid \/ EvalOnlyTest \/ EvalOnlyReturn
    \/ LoopHead \/ TrainPass \/ ValidPass \/ BestDecision \/ TestPass
    \/ Report \/ SchedulerStep

SpecCall == Init /\ [][NextCall]_vars /\ WF_vars(NextCall)

----------------------------------------------------------------------------
(* Construction and checkpoint loading alone, for both networks and every  *)
(* shape of checkpoint                                                     *)

InitLoad ==
    /\ cfg \in {c \in Configs({"wresnet", "senet"}) :
                    c.max_epoch = MaxEpochBound /\ ~c.only_eval /\ c.save_path}
    /\ file \in {NoFile} \cup BareFiles(cfg.model)
                     \cup WrappedFiles(cfg.model, AllShapes)
    /\ ProcessStart
    /\ restarts = 0
    /\ killed = NoKill
    /\ RunEpochIdle

NextLoad == BuildOptimizer \/ BuildScheduler \/ LoadCheckpoint

SpecLoad == InitLoad /\ [][NextLoad]_vars

----------------------------------------------------------------------------
(* run_epoch, batch by batch.  Numbers are exact: a quotient is kept as a  *)
(* pair [num, den].                                                        *)

Rat(n, d) == [num |-> n, den |-> d]
RatEq(a, b) == a.num * b.den = b.num * a.den

\* per-batch (loss, top1, top5) as loss_fn and accuracy may return them
BatchValues == {<<2, 0, 0>>, <<1, 0, 1>>, <<0, 1, 1>>}
Batches ==
    {[n |-> n, loss |-> t[1], top1 |-> t[2], top5 |-> t[3]] :
        n \in 1..MaxBatchSize, t \in BatchValues}

RECURSIVE SeqsUpTo(_, _)
SeqsUpTo(S, n) ==
    IF n = 0 THEN {<<>>}
    ELSE LET shorter == SeqsUpTo(S, n - 1)
         IN shorter \cup {Append(q, x) : q \in {r \in shorter : Len(r) = n - 1},
                                         x \in S}

\* (mutant) the per-batch values are added without the batch size
BatchTotalsUnweighted(b) == [loss |-> b.loss, top1 |-> b.top1, top5 |-> b.top5]

\* lines 55-59: the dict handed to metrics.add_dict
BatchTotals(b) ==
    [loss |-> b.loss * b.n, top1 |-> b.top1 * b.n, top5 |-> b.top5 * b.n]

\* Accumulator.add_dict: a key not seen before starts at 0
AddDict(m, d) ==
    [k \in DOMAIN m \cup DOMAIN d |->
        (IF k \in DOMAIN m THEN m[k] ELSE 0) + (IF k \in DOMAIN d THEN d[k] ELSE 0)]

\* line 60
CountAfter(cnt, b) == cnt + b.n

\* line 78: metrics /= cnt divides every entry
Scaled(m, cnt) == [k \in DOMAIN m |-> Rat(m[k], cnt)]

\* (mutant) the epoch itself is taken as the whole part
SchedulerPositionFromEpoch(e, steps, total) == Rat(e * total + steps, total)

\* line 68: epoch - 1 + float(steps) / total_steps
SchedulerPosition(e, steps, total) == Rat((e - 1) * total + steps, total)

InitRunEpoch ==
    /\ cfg = [max_epoch |-> MaxEpochBound, only_eval |-> FALSE, save_path |-> FALSE,
              model |-> "wresnet", opt_type |-> "sgd", sched_type |-> "cosine"]
    /\ file = NoFile
    /\ pc = "idle"
    /\ model = InitModel(cfg.model)
    /\ optimizer = Absent
    /\ scheduler = Absent
    /\ result = Absent
    /\ epoch_start = 0
    /\ epoch = 0
    /\ train_metrics = NoMetrics
    /\ valid_metrics = NoMetrics
    /\ test_metrics = NoMetrics
    /\ retval = NoMetrics
    /\ trace = <<>>
    /\ reports = <<>>
    /\ seen = {}
    /\ hist = <<>>
    /\ restarts = 0
    /\ killed = NoKill
    /\ re_pc = "loop"
    /\ re_in \in [loader : SeqsUpTo(Batches, MaxBatches), optimizer : BOOLEAN,
                  scheduler : BOOLEAN, epoch : 1..2, lr : {1}]
    /\ re_steps = 0
    /\ re_cnt = 0
    /\ re_metrics = <<>>
    /\ re_opt_steps = 0
    /\ re_sched = <<>>

\* lines 38-70: one iteration of the loop over the loader
ReBatch ==
    /\ re_pc = "loop"
    /\ re_steps < Len(re_in.loader)
    /\ re_steps' = re_steps + 1
    /\ re_opt_steps' = IF re_in.optimizer THEN re_opt_steps + 1 ELSE re_opt_steps
    /\ re_metrics' = AddDict(re_metrics, BatchTotals(re_in.loader[re_steps + 1]))
    /\ re_cnt' = CountAfter(re_cnt, re_in.loader[re_steps + 1])
    /\ re_sched' = IF re_in.scheduler
                   THEN Append(re_sched, SchedulerPosition(re_in.epoch, re_steps + 1,
                                                           Len(re_in.loader)))
                   ELSE re_sched
    /\ UNCHANGED <<re_pc, re_in, mainvars>>

\* lines 78-84: the averages returned (an empty Accumulator has no entry to divide)
ReFinish ==
    /\ re_pc = "loop"
    /\ re_steps = Len(re_in.loader)
    /\ re_metrics' =
          LET avg == Scaled(re_metrics, re_cnt)
          IN IF re_in.optimizer
             THEN [k \in DOMAIN avg \cup {"lr"} |->
                      IF k = "lr" THEN Rat(re_in.lr, 1) ELSE avg[k]]
             ELSE avg
    /\ re_pc' = "returned"
    /\ UNCHANGED <<re_in, re_steps, re_cnt, re_opt_steps, re_sched, mainvars>>

NextRunEpoch == ReBatch \/ ReFinish

SpecRunEpoch == InitRunEpoch /\ [][NextRunEpoch]_vars

----------------------------------------------------------------------------
(* Reading the log of a process *)

\* the checkpoint epoch and best value the process found at start
LoadedEpoch == IF trace # <<>> /\ trace[1].op = "load" THEN trace[1].epoch ELSE Absent
LoadedBest == IF trace # <<>> /\ trace[1].op = "load" THEN trace[1].val ELSE Absent

EventsOf(ops) == SelectSeq(trace, LAMBDA ev : ev.op \in ops)
EpochsOf(ops) == [i \in 1..Len(EventsOf(ops)) |-> EventsOf(ops)[i].epoch]
SetMax(S) == CHOOSE x \in S : \A y \in S : y <= x

----------------------------------------------------------------------------
(* C1..C4 *)

\* C1: with a save_path, the decision step of an epoch writes the checkpoint
\* if and only if the epoch's validation value is strictly greater than every
\* value of the earlier epochs of the run and the best value loaded from the
\* checkpoint; otherwise the file is left as it is.
C1_SaveIffStrictlyBest ==
    [][(pc = "decide" /\ pc' = "test_check" /\ cfg.save_path) =>
        LET v == valid_metrics.val
            before == seen \cup (IF LoadedBest = Absent THEN {} ELSE {LoadedBest})
            wrote == /\ Len(trace') = Len(trace) + 1
                     /\ trace'[Len(trace')] = Event("save", epoch, v)
                     /\ file'.epoch = epoch
                     /\ file'.metric = v
        IN /\ wrote <=> (\A x \in before : v > x)
           /\ ~wrote => (file' = file /\ trace' = trace)]_vars

\* an epoch repeats the best value so far and the checkpoint of an earlier
\* epoch is still in place
C1_Witness ==
    /\ pc = "test_check" /\ cfg.save_path
    /\ valid_metrics.val = result
    /\ LastSaveEpoch(trace) > 0 /\ LastSaveEpoch(trace) < epoch
    /\ file.epoch = LastSaveEpoch(trace) /\ file.metric = result

\* C2: a process that loaded a checkpoint recording epoch N runs the epochs
\* N+1, N+2, ..., max_epoch in this order and no epoch <= N; without a stored
\* epoch, or without a checkpoint, it starts at epoch 1.
C2_ResumeAfterStoredEpoch ==
    LET start == IF LoadedEpoch = Absent THEN 1 ELSE LoadedEpoch + 1
        ran == EpochsOf({"train"})
        all == IF cfg.max_epoch < start THEN 0 ELSE cfg.max_epoch - start + 1
    IN (pc \in Running \cup {"returned"} /\ ~cfg.only_eval) =>
        /\ \A i \in 1..Len(ran) : ran[i] = start + i - 1
        /\ Len(ran) <= all
        /\ pc \in InEpoch =>
              epoch = start + Len(ran) - (IF pc = "train" THEN 0 ELSE 1)
        /\ pc = "returned" => Len(ran) = all

C2_Witness ==
    /\ pc = "returned" /\ ~cfg.only_eval
    /\ LoadedEpoch = 2 /\ cfg.max_epoch = 5
    /\ EpochsOf({"train"}) = <<3, 4, 5>>

\* C3: an epoch of the loop has a test pass, and hands its metrics to the
\* reporter, if and only if max_epoch - epoch <= 5; otherwise no test pass is
\* run and the reporter is given None.
C3_TestPassNearEnd ==
    \A i \in 1..Len(reports) :
        LET r == reports[i]
            tested == \E j \in 1..Len(trace) :
                          trace[j].op = "test" /\ trace[j].epoch = r.epoch
        IN IF cfg.max_epoch - r.epoch <= 5
           THEN tested /\ r.test = [pass |-> "test", epoch |-> r.epoch]
           ELSE ~tested /\ r.test = Tag(NoMetrics)

C3_Witness ==
    /\ cfg.max_epoch = 7 /\ Len(reports) = 2
    /\ reports[1].epoch = 1 /\ reports[1].test = Tag(NoMetrics)
    /\ reports[2].epoch = 2 /\ reports[2].test.pass = "test"

----------------------------------------------------------------------------
(* C5..C10 *)

\* C5: when the loop ends, the best value returned is the maximum of the
\* validation values of the epochs the process ran and of the best value it
\* loaded (nothing is returned when there is neither); with max_epoch = 3, no
\* checkpoint at start and validation values 40, 55, 50 the checkpoint is
\* written after epochs 1 and 2 only and 55, the value of epoch 2, is returned.
C5_ReturnsMaximum ==
    (pc = "returned" /\ ~cfg.only_eval) =>
        LET all == seen \cup (IF LoadedBest = Absent THEN {} ELSE {LoadedBest})
        IN /\ retval.pass = "result"
           /\ retval.val = IF all = {} THEN Absent ELSE SetMax(all)
           /\ (/\ cfg.max_epoch = 3 /\ cfg.save_path /\ LoadedEpoch = Absent
               /\ LoadedBest = Absent /\ hist = <<40, 55, 50>>) =>
                 /\ EventsOf({"save"}) = <<Event("save", 1, 40), Event("save", 2, 55)>>
                 /\ retval.val = 55
                 /\ file.epoch = 2 /\ file.metric = 55

C5_Witness ==
    /\ pc = "returned" /\ ~cfg.only_eval
    /\ cfg.max_epoch = 3 /\ cfg.save_path
    /\ EventsOf({"load"}) = <<>>
    /\ hist = <<40, 55, 50>>
    /\ retval.val = 55

\* C6 as stated: a process restarted after a kill during epoch k finds the
\* epoch k - 1 in the checkpoint and resumes at epoch k.
C6_ResumesAtInterruptedEpoch ==
    (pc = "loaded" /\ cfg.save_path /\ killed.epoch > 0) =>
        /\ epoch_start = killed.epoch
        /\ (CheckpointFound(cfg, file) /\ file.epoch # Absent) =>
              file.epoch = killed.epoch - 1

\* C6 amended: a process restarted after a kill during epoch k resumes at the
\* epoch after the last epoch at which the killed process saved (an epoch up to
\* and including k); when the killed process saved nothing, it starts at the
\* epoch the killed process had started at.
C6_ResumesAfterLastSavedEpoch ==
    (pc = "loaded" /\ cfg.save_path /\ killed.epoch > 0) =>
        IF killed.best_epoch > 0
        THEN /\ epoch_start = killed.best_epoch + 1
             /\ file.epoch = killed.best_epoch
             /\ killed.start <= killed.best_epoch
             /\ killed.best_epoch <= killed.epoch
        ELSE /\ epoch_start = killed.start
             /\ epoch_start <= killed.epoch

\* killed in epoch 4 when the best epoch was 2: epochs 3 and 4 are run again
C6_Witness ==
    /\ pc = "loaded" /\ cfg.save_path
    /\ killed.epoch = 4 /\ killed.best_epoch = 2 /\ killed.start = 1
    /\ epoch_start = 3

\* C7: the reporter is called once per epoch, in increasing order from the
\* start epoch (up to max_epoch when the loop has ended), with the epoch and the
\* metrics of that epoch's own train, validation and test pass (None when no
\* test pass was due), and only after the epoch's train and validation passes.
C7_ReporterOncePerEpoch ==
    (pc \in Running \cup {"returned"} /\ ~cfg.only_eval) =>
        LET calls == EventsOf({"train", "valid", "report"})
        IN /\ \A i \in 1..Len(reports) :
                /\ reports[i].epoch = epoch_start + i - 1
                /\ reports[i].train = [pass |-> "train", epoch |-> reports[i].epoch]
                /\ reports[i].valid = [pass |-> "valid", epoch |-> reports[i].epoch]
                /\ reports[i].test \in {[pass |-> "test", epoch |-> reports[i].epoch],
                                        Tag(NoMetrics)}
           /\ Len(EventsOf({"report"})) = Len(reports)
           /\ \A j \in 1..Len(calls) :
                calls[j].op = "report" =>
                    /\ j >= 3
                    /\ calls[j - 2] = Event("train", calls[j].epoch, 0)
                    /\ calls[j - 1] = Event("valid", calls[j].epoch, 0)
           /\ pc = "returned" =>
                Len(reports) = IF cfg.max_epoch < epoch_start THEN 0
                               ELSE cfg.max_epoch - epoch_start + 1

C7_Witness ==
    /\ pc = "returned" /\ ~cfg.only_eval
    /\ epoch_start = 2 /\ cfg.max_epoch = 4
    /\ Len(reports) = 3
    /\ reports[3].epoch = 4

BadConfig ==
    cfg.opt_type # "sgd" \/ cfg.sched_type \notin {"cosine", "resnet"}

\* C8: with an optimizer type other than "sgd", or a schedule type other than
\* "cosine" and "resnet", the process ends in the configuration error without a
\* pass, a checkpoint load, a checkpoint write or a reporter call.
C8_ConfigurationError ==
    /\ [](BadConfig =>
            /\ pc \in {"start", "opt_built", "config_error", "killed"}
            /\ cfg.opt_type # "sgd" => pc # "opt_built"
            /\ trace = <<>> /\ reports = <<>>
            /\ retval = NoMetrics /\ epoch = 0)
    /\ [][BadConfig =>
            /\ file' = file
            /\ (pc \in {"start", "opt_built"} /\ pc' \notin {pc, "opt_built", "killed"}) =>
                  pc' = "config_error"
            /\ pc = "config_error" => pc' = "config_error"]_vars

C8_Witness ==
    /\ pc = "config_error" /\ cfg.opt_type = "adam"
    /\ CheckpointFound(cfg, file) /\ file.epoch = 2
    /\ trace = <<>> /\ optimizer = Absent

\* the sample-weighted and the unweighted mean of the per-batch values
RECURSIVE WeightedSum(_, _)
WeightedSum(loader, key) ==
    IF loader = <<>> THEN 0
    ELSE loader[1][key] * loader[1].n + WeightedSum(Tail(loader), key)
RECURSIVE PlainSum(_, _)
PlainSum(loader, key) ==
    IF loader = <<>> THEN 0 ELSE loader[1][key] + PlainSum(Tail(loader), key)
RECURSIVE Samples(_)
Samples(loader) == IF loader = <<>> THEN 0 ELSE loader[1].n + Samples(Tail(loader))

\* C9: for a non-empty loader, each of loss, top1 and top5 returned by
\* run_epoch is the sum of (batch value x batch size) divided by the number of
\* samples; it is not the unweighted mean of the batch values where the two
\* differ.
C9_SampleWeightedMean ==
    (re_pc = "returned" /\ re_in.loader # <<>>) =>
        \A key \in {"loss", "top1", "top5"} :
            LET weighted == Rat(WeightedSum(re_in.loader, key), Samples(re_in.loader))
                plain == Rat(PlainSum(re_in.loader, key), Len(re_in.loader))
            IN /\ key \in DOMAIN re_metrics
               /\ re_metrics[key].den > 0
               /\ RatEq(re_metrics[key], weighted)
               /\ ~RatEq(weighted, plain) => ~RatEq(re_metrics[key], plain)

\* batches of 2 and 1 samples with top1 = 1 and 0: 2/3, not 1/2
C9_Witness ==
    /\ re_pc = "returned"
    /\ Len(re_in.loader) = 2
    /\ re_in.loader[1].n = 2 /\ re_in.loader[1].top1 = 1
    /\ re_in.loader[2].n = 1 /\ re_in.loader[2].top1 = 0
    /\ RatEq(re_metrics["top1"], Rat(2, 3))

\* C10: whatever the shape of the checkpoint (bare, or under "model" or
\* "state_dict") and whether or not its keys carry "module.", loading succeeds,
\* the model holds the stored value of every parameter, and every key handed
\* to load_state_dict starts with "module." and holds it once.
C10_SameParametersAnyShape ==
    (pc \in {"loaded", "load_error"} /\ CheckpointFound(cfg, file)) =>
        /\ pc = "loaded"
        /\ model = [i \in 1..Len(ParamNames(cfg.model)) |->
                      [k |-> ModulePrefix \o ParamNames(cfg.model)[i],
                       v |-> file.sd[i].v]]
        /\ \A k \in DictKeys(LoadedStateDict(file)) :
              /\ SubSeq(k, 1, 2) = ModulePrefix
              /\ ~HasModuleDot(SubSeq(k, 3, Len(k)))

----------------------------------------------------------------------------
(* C11..C16 *)

\* the steps of the loop in the log, without the load that may precede them
LoopEvents == EventsOf({"train", "valid", "save", "test", "report", "sched"})

\* C11: in the log of a process, every epoch is the sequence train pass,
\* validation pass, checkpoint write (if the decision saved), test pass (if and
\* only if due), reporter call, scheduler step, each once; an epoch begins, with
\* its train pass, right after the scheduler step of the epoch before it; and
\* the process stands where the last step of the log leaves it, the decision
\* having been taken between the validation pass and whatever follows it.
C11_StepsInOrder ==
    (pc \in Running \cup {"returned"} /\ ~cfg.only_eval) =>
        LET L == LoopEvents
            due(e) == cfg.max_epoch - e <= 5
        IN /\ L # <<>> => L[1] = Event("train", epoch_start, 0)
           /\ \A j \in 1..(Len(L) - 1) :
                LET a == L[j]
                    b == L[j + 1]
                IN IF a.op = "sched"
                   THEN b = Event("train", a.epoch + 1, 0)
                   ELSE /\ b.epoch = a.epoch
                        /\ a.op = "train" => b.op = "valid"
                        /\ a.op \in {"valid", "save"} =>
                              /\ b.op \in {"test", "report"} \cup
                                          (IF a.op = "valid" THEN {"save"} ELSE {})
                              /\ b.op = "report" => ~due(a.epoch)
                              /\ b.op = "test" => due(a.epoch)
                        /\ a.op = "test" => b.op = "report"
                        /\ a.op = "report" => b.op = "sched"
           /\ L = <<>> => pc \in {"start", "opt_built", "sched_built", "loaded",
                                  "train", "returned"}
           /\ L # <<>> =>
                LET z == L[Len(L)]
                IN /\ z.op = "train" => pc = "valid" /\ epoch = z.epoch
                   /\ z.op = "valid" =>
                        pc \in {"decide", "test_check", "report"} /\ epoch = z.epoch
                   /\ z.op = "save" => pc \in {"test_check", "report"} /\ epoch = z.epoch
                   /\ z.op = "test" => pc = "report" /\ epoch = z.epoch
                   /\ z.op = "report" => pc = "sched_step" /\ epoch = z.epoch
                   /\ z.op = "sched" =>
                        \/ pc = "next" /\ epoch = z.epoch
                        \/ pc = "train" /\ epoch = z.epoch + 1
                        \/ pc = "returned" /\ z.epoch = cfg.max_epoch
                   /\ pc = "report" => (z.op = "test" <=> due(z.epoch))

\* a run of seven epochs whose first epoch saved without a test pass and whose
\* later epochs had test passes, one of them saving again
C11_Witness ==
    /\ pc = "returned" /\ ~cfg.only_eval
    /\ cfg.max_epoch = 7 /\ epoch_start = 1
    /\ Len(LoopEvents) > 30
    /\ SubSeq(LoopEvents, 1, 5) =
          <<Event("train", 1, 0), Event("valid", 1, 0), Event("save", 1, 40),
            Event("report", 1, 0), Event("sched", 1, 0)>>
    /\ Len(EventsOf({"save"})) = 3

\* the pass the step has just added to the log ("none" when it added no pass)
PassLogged ==
    IF Len(trace') = Len(trace) + 1 /\ SubSeq(trace', 1, Len(trace)) = trace
    THEN trace'[Len(trace')].op
    ELSE "none"

\* C12: a validation or test pass, in the loop or in eval-only mode, leaves the
\* model parameters and the optimizer state as they were; a training pass
\* takes one optimizer step per batch of the train loader; and within a
\* running process nothing but a training pass changes the parameters or the
\* optimizer state once the checkpoint has been loaded.
C12_OnlyTrainingChangesWeights ==
    [][/\ PassLogged \in {"valid", "test"} =>
            model' = model /\ optimizer' = optimizer
       /\ PassLogged = "train" =>
            /\ optimizer' = optimizer + TrainLoaderLen
            /\ model' = TrainedModel(model, TrainLoaderLen)
            /\ model' # model
       /\ (pc \in Running \ {"start", "opt_built", "sched_built"} /\ pc' # "killed"
            /\ (model' # model \/ optimizer' # optimizer)) =>
                PassLogged = "train"]_vars

\* a training run whose validation and test passes have all been made, the
\* optimizer having taken one step per batch of each training pass and the
\* parameters having moved with it
C12_Witness ==
    /\ pc = "returned" /\ ~cfg.only_eval /\ cfg.max_epoch = 3 /\ epoch_start = 1
    /\ file = NoFile
    /\ Len(EventsOf({"train"})) = 3 /\ Len(EventsOf({"valid"})) = 3
    /\ Len(EventsOf({"test"})) = 3
    /\ optimizer = 3 * TrainLoaderLen
    /\ model = TrainedModel(InitModel(cfg.model), 3 * TrainLoaderLen)

\* a < b for quotients with positive denominators
RatLess(a, b) == a.num * b.den < b.num * a.den

\* C13 as stated: after the i-th of n batches of epoch e the scheduler is
\* advanced to e + i/n.
C13_PositionEpochPlusProgress ==
    \A i \in 1..Len(re_sched) :
        RatEq(re_sched[i],
              Rat(re_in.epoch * Len(re_in.loader) + i, Len(re_in.loader)))

\* C13, amended: with a per-batch scheduler, after the i-th of n batches of
\* epoch e the scheduler is advanced to e - 1 + i/n, once per batch; the
\* positions increase strictly from batch to batch, lie above the last
\* position of epoch e - 1 whatever the length of that epoch's loader, and end
\* at e, so they increase strictly from epoch to epoch too.  Without a
\* scheduler no position is passed.
C13_PositionEpochMinusOnePlusProgress ==
    LET n == Len(re_in.loader)
        e == re_in.epoch
    IN /\ Len(re_sched) = (IF re_in.scheduler THEN re_steps ELSE 0)
       /\ \A i \in 1..Len(re_sched) :
            /\ RatEq(re_sched[i], Rat((e - 1) * n + i, n))
            /\ i > 1 => RatLess(re_sched[i - 1], re_sched[i])
            /\ \A m \in 1..MaxBatches :
                  RatLess(SchedulerPosition(e - 1, m, m), re_sched[i])
            /\ ~RatLess(Rat(e, 1), re_sched[i])
       /\ (re_pc = "returned" /\ re_in.scheduler /\ n > 0) =>
            RatEq(re_sched[n], Rat(e, 1))

\* a pass over three batches of epoch 2 with a per-batch scheduler
C13_Witness ==
    /\ re_pc = "returned" /\ re_in.scheduler /\ re_in.epoch = 2
    /\ Len(re_in.loader) = 3 /\ Len(re_sched) = 3
    /\ RatEq(re_sched[1], Rat(4, 3)) /\ RatEq(re_sched[3], Rat(2, 1))

\* C14 as stated: a process that was never resumed enters epoch e with the
\* scheduler at e - 1, the scheduler step of every earlier epoch applied; and
\* a process resumed from the checkpoint that the killed process wrote at
\* epoch N enters epoch N + 1 with the scheduler at N as well.
C14_ResumedSchedulerAsUninterrupted ==
    /\ (pc = "train" /\ EventsOf({"load"}) = <<>>) => scheduler = epoch - 1
    /\ (pc = "loaded" /\ ~cfg.only_eval /\ killed.best_epoch > 0) =>
            /\ epoch_start = killed.best_epoch + 1
            /\ scheduler = epoch_start - 1

\* the process has written the file at save_path
SavedByThisRun == EventsOf({"save"}) # <<>>

\* the file holds the in-memory best and the epoch of the last write
FileHoldsBest ==
    (pc \in Running \cup {"returned"} /\ SavedByThisRun) =>
        /\ file.form = "model"
        /\ file.metric = result
        /\ file.epoch = LastSaveEpoch(trace)
        /\ file.epoch <= epoch

\* the best value held in memory is never lost and never lowered by a step of
\* the process, and a write stores the value of the validation pass of the
\* current epoch, which becomes the best value in the same decision
BestOnlyRises ==
    /\ (result # Absent /\ pc' # "killed") => result' >= result
    /\ file' # file =>
          /\ pc = "decide" /\ pc' = "test_check"
          /\ valid_metrics.pass = "valid" /\ valid_metrics.epoch = epoch
          /\ file'.metric = valid_metrics.val /\ file'.epoch = epoch
          /\ result' = file'.metric
          /\ result = Absent \/ result < result'

\* C15: the in-memory best value never decreases while the process runs; and
\* once the process has written a checkpoint, the file at save_path holds the
\* current in-memory best value and the epoch whose validation pass attained
\* it, at every point after a decision step.
C15_FileTracksBest == [](FileHoldsBest) /\ [][BestOnlyRises]_vars

\* a run that saved at epoch 1, saved a better value at epoch 2 and went
\* through a worse epoch 3 without writing
C15_Witness ==
    /\ pc = "returned" /\ ~cfg.only_eval /\ cfg.max_epoch = 3 /\ epoch_start = 1
    /\ EventsOf({"save"}) = <<Event("save", 1, 50), Event("save", 2, 55)>>
    /\ hist = <<50, 55, 40>>
    /\ file.epoch = 2 /\ file.metric = 55 /\ result = 55

\* max(0, max_epoch - s + 1) for the start epoch s of the process
LoopEpochs ==
    IF cfg.max_epoch - epoch_start + 1 > 0 THEN cfg.max_epoch - epoch_start + 1
                                           ELSE 0

\* the epochs epoch_start..max_epoch in order
LoopRange == [i \in 1..LoopEpochs |-> epoch_start + i - 1]

\* the loop has been left by the return of line 218
LoopDone == pc = "returned" /\ ~cfg.only_eval

EpochCount ==
    /\ (pc \in {"loaded", "next", "returned"} \cup InEpoch) =>
          /\ epoch_start = (IF LoadedEpoch # Absent THEN LoadedEpoch + 1 ELSE 1)
          /\ Len(EventsOf({"train"})) <= LoopEpochs
          /\ epoch <= cfg.max_epoch
    /\ LoopDone =>
          /\ EpochsOf({"train"}) = LoopRange
          /\ EpochsOf({"valid"}) = LoopRange
          /\ EpochsOf({"report"}) = LoopRange
          /\ EpochsOf({"sched"}) = LoopRange
          /\ Len(reports) = LoopEpochs
          /\ retval.pass = "result"
    /\ (LoopDone /\ LoadedEpoch >= cfg.max_epoch) =>
          /\ LoopEpochs = 0
          /\ trace = <<Event("load", LoadedEpoch, LoadedBest)>>
          /\ reports = <<>>
          /\ file.epoch = LoadedEpoch
          /\ retval = Metrics("result", 0, LoadedBest)

CallEnded == pc \in {"returned", "config_error", "load_error"}

\* C16: a call that starts its loop at epoch s (1, or the checkpoint's epoch
\* plus 1) runs the epochs s..max_epoch, max(0, max_epoch - s + 1) of them,
\* each once, and then returns; a call that loaded a checkpoint whose epoch
\* is max_epoch or more runs no pass, writes nothing, calls the reporter zero
\* times and returns the best value restored from the checkpoint (no value
\* when the checkpoint has none for the metric); and every call comes to an
\* end.
C16_LoopRunsRemainingEpochs == [](EpochCount) /\ <>(CallEnded)

\* a call resumed from a checkpoint of epoch 4 that went through the epochs
\* 5, 6 and 7 and returned
C16_Witness ==
    /\ LoopDone /\ cfg.max_epoch = 7 /\ LoadedEpoch = 4 /\ epoch_start = 5
    /\ EpochsOf({"train"}) = <<5, 6, 7>>
    /\ Len(reports) = 3

\* a call that found a checkpoint of an epoch past max_epoch and returned the
\* restored best value at once
C16_WitnessNothingLeft ==
    /\ LoopDone /\ cfg.max_epoch = 3 /\ LoadedEpoch = 10 /\ LoadedBest = 50
    /\ trace = <<Event("load", 10, 50)>>
    /\ retval = Metrics("result", 0, 50)

====
